---- MODULE Spec2Model ----
(***************************************************************************)
(* Model of neurodeploy-infra.                                             *)
(*                                                                         *)
(*  - the route composition of MainStack / NdMainStack: add() and          *)
(*    create_lambda(), over the construct tree of the CDK stack            *)
(*    (specification SpecStack);                                           *)
(*  - the staging trigger s3_staging_trigger.py: handler(), main(),        *)
(*    get_attributes(), move_object(), upsert_ml_model_record(),           *)
(*    get_model(), over the S3 buckets and the Models table                *)
(*    (specification SpecIngest).                                          *)
(***************************************************************************)
EXTENDS Integers, Sequences, FiniteSets, TLC

VARIABLES
    \* ---- route composition (main_stack.py, nd_main_stack.py)
    variant,          \* which stack class is being built
    apigw_resources,  \* self.apigw_resources: registry key -> resource node
    resources,        \* API Gateway resource nodes: node -> [parent, pathPart]
    methods,          \* <<node, http_method>> -> id of the integrated lambda
    scope,            \* construct ids already used in the stack's scope
    lambdas,          \* lambda id -> [env, queue, tables, buckets]: the
                      \* environment of the function, the queue of its
                      \* LambdaQueueTuple, the stores it was built with
    queues,           \* ids of the queues created
    grants,           \* set of [principal, store, statement]
    consumers,        \* id of a queue consumer lambda -> its environment
    triggers,         \* event source mappings: set of [lambda, queue, batch_size]
    status,           \* "building", "new_user_done", "finished" as __init__
                      \* advances; "failed" once an exception escaped
    lastCall,         \* arguments and outcome of the most recent add()
    nCalls,           \* number of add() calls made
    \* ---- staging trigger (s3_staging_trigger.py)
    s3objects,        \* <<bucket, key>> -> Metadata of the object stored there
    table,            \* Models table: <<pk, sk>> -> item
    clock,            \* datetime.utcnow()
    inv,              \* invocation -> state of one running handler()
    log,              \* the calls handler() made to logger.error and
                      \* logger.exception, in order
    hist,             \* the last records whose processing ended, newest last
    nDeliv,           \* number of records delivered to handler() so far
    pending           \* object-created notifications of the staging bucket
                      \* that the event source has not delivered yet

stackVars == <<variant, apigw_resources, resources, methods, scope, lambdas,
               queues, grants, consumers, triggers, status, lastCall, nCalls>>
ingestVars == <<s3objects, table, clock, inv, log, hist, nDeliv, pending>>
vars == <<stackVars, ingestVars>>

\* ------------------------------------------------------------------ bounds
MaxAdds == 3         \* add() calls in one composition
MaxRecords == 2      \* records delivered to handler(), over all its invocations
MaxRoutes == 2       \* add() calls before the queue consumers are created

\* ------------------------------------------------------------ small helpers
\* The empty function (an empty dict).
EmptyMap == [x \in {} |-> x]

Has(f, k) == k \in DOMAIN f

\* dict[k] = v
Put(f, k, v) == [x \in (DOMAIN f) \cup {k} |-> IF x = k THEN v ELSE f[x]]

\* ==================================================================
\*  Route composition: MainStack.add / NdMainStack.add
\* ==================================================================

\* Deployment context of the stack (app.py).
Prefix == "neurodeploy"
RegionName == "us-west-1"

Root == 0        \* api.root
NoNode == 0      \* _resource = None
NoQueue == ""    \* _queue = None
NoOverwrite == ""  \* filename_overwrite = None
ProxyPart == "{proxy+}"  \* path part of the node add_proxy() creates

\* An optional list argument: None, or a list.
NoneArg == [none |-> TRUE, items |-> <<>>]
ListArg(items) == [none |-> FALSE, items |-> items]
\* `arg or []`
OrEmpty(arg) == IF arg.none THEN <<>> ELSE arg.items

\* Construct ids the stack's scope already holds when
\* create_api_gateway_and_lambdas() starts.
InitialScope(v) ==
    IF v = "MainStack"
    THEN {Prefix \o "_staging", "jwt_secret", "py_jwt_layer", "Users", "Creds",
          "Models", "Usages", "HostedZone", "Certificate", "proxy_lambda_sg",
          "execution_lambda", "lambda_runtime_ecr", "execution_alias",
          "proxy_lambda", "logs_queue", "proxy_api", "proxy-api-a-record",
          Prefix \o "_api"}
    ELSE {"jwt_secret", "py_jwt_layer", "Users", "APIs", "Tokens", "Models",
          "UsageLogs", "models_bucket", "HostedZone", "Certificate",
          Prefix \o "_api"}

\* The key of the registry self.apigw_resources: (resource_name, proxy) in
\* MainStack, resource_name alone in NdMainStack (which has no proxy routes).
RegistryKeyNoProxy(v, resource_name, proxy) == <<resource_name, FALSE>>
RegistryKey(v, resource_name, proxy) ==
    IF v = "MainStack" THEN <<resource_name, proxy>> ELSE <<resource_name, FALSE>>

\* `if key in self.apigw_resources: _resource = self.apigw_resources[key]`
LookupResourceNever(reg, key) == NoNode
LookupResource(reg, key) == IF Has(reg, key) THEN reg[key] ELSE NoNode

\* A construct id must be unique within its scope: constructing a second
\* construct with an id the scope holds raises.
\* parent.add_resource(path_part) / parent.add_proxy(): a new Resource
\* construct whose id is the path part, in the scope of the parent node.
AddResource(st, parent, part) ==
    IF st.error # "" THEN st
    ELSE IF \E n \in DOMAIN st.res : st.res[n] = [parent |-> parent, pathPart |-> part]
    THEN [st EXCEPT !.error = "DuplicateConstruct", !.errorAt = "resource"]
    ELSE LET n == Cardinality(DOMAIN st.res) + 1
         IN  [st EXCEPT !.res = Put(st.res, n, [parent |-> parent, pathPart |-> part]),
                        !.node = n]

\* self.apigw_resources[key] = _resource
Register(st, key) ==
    IF st.error # "" THEN st ELSE [st EXCEPT !.reg = Put(st.reg, key, st.node)]

\* _resource.add_proxy(any_method=False), registered under the route's key
AddProxyUnder(base, key) == Register(AddResource(base, base.node, ProxyPart), key)

\* add(): "create resource under self.api.root if it doesn't already exist"
ResolveResourceForgetful(st, v, resource_name, proxy) ==
    LET key == RegistryKey(v, resource_name, proxy)
        found == LookupResource(st.reg, key)
    IN  IF found # NoNode THEN [st EXCEPT !.node = found]
        ELSE IF ~proxy
        THEN Register(AddResource(st, Root, resource_name), key)
        ELSE AddProxyUnder(
                IF Has(st.reg, <<resource_name, FALSE>>)
                THEN [st EXCEPT !.node = st.reg[<<resource_name, FALSE>>]]
                ELSE AddResource(st, Root, resource_name),
                key)
ResolveResource(st, v, resource_name, proxy) ==
    LET key == RegistryKey(v, resource_name, proxy)
        found == LookupResource(st.reg, key)
    IN  IF found # NoNode THEN [st EXCEPT !.node = found]
        ELSE IF ~proxy
        THEN Register(AddResource(st, Root, resource_name), key)
        ELSE AddProxyUnder(
                IF Has(st.reg, <<resource_name, FALSE>>)
                THEN [st EXCEPT !.node = st.reg[<<resource_name, FALSE>>]]
                ELSE Register(AddResource(st, Root, resource_name),
                              <<resource_name, FALSE>>),
                key)

\* sqs.Queue(self, resource_name, ...) if create_queue else None
CreateQueue(st, resource_name, create_queue) ==
    IF st.error # "" \/ ~create_queue THEN st
    ELSE IF resource_name \in st.scope
    THEN [st EXCEPT !.error = "DuplicateConstruct", !.errorAt = "queue"]
    ELSE [st EXCEPT !.scope = @ \cup {resource_name},
                    !.queues = @ \cup {resource_name},
                    !.queue = resource_name]

QueueUrl(q) == "url:" \o q
TableArn(t) == "arn:" \o t

\* The dict comprehension and the assignments that build env.
RECURSIVE EnvOfTables(_)
EnvOfTables(items) ==
    IF items = <<>> THEN EmptyMap
    ELSE LET rest == EnvOfTables(SubSeq(items, 1, Len(items) - 1))
             last == items[Len(items)]
         IN  Put(rest, last[1], TableArn(last[1]))

LambdaEnv(v, tables, queue) ==
    LET e0 == EnvOfTables(IF v = "MainStack" THEN OrEmpty(tables) ELSE tables.items)
        e1 == Put(e0, "region_name", RegionName)
        e2 == IF v = "MainStack" THEN Put(e1, "prefix", Prefix) ELSE e1
    IN  IF queue # NoQueue THEN Put(e2, "queue", QueueUrl(queue)) ELSE e2

\* The if / elif / else chains over the permission of a table and of a bucket.
TableGrant(permission) ==
    IF permission = "READ" THEN "grant_read_data"
    ELSE IF permission = "WRITE" THEN "grant_write_data"
    ELSE "grant_full_access"

BucketGrant(permission) ==
    IF permission = "READ" THEN "grant_read"
    ELSE IF permission = "WRITE" THEN "grant_write"
    ELSE "grant_read_write"

GrantsOf(id, tables, buckets) ==
    {[principal |-> id, store |-> OrEmpty(tables)[i][1],
      statement |-> TableGrant(OrEmpty(tables)[i][2])] : i \in 1..Len(OrEmpty(tables))}
    \cup
    {[principal |-> id, store |-> OrEmpty(buckets)[i][1],
      statement |-> BucketGrant(OrEmpty(buckets)[i][2])] : i \in 1..Len(OrEmpty(buckets))}

\* create_lambda(id, tables, buckets, layers, queue)
CreateLambda(st, v, id, tables, buckets) ==
    IF st.error # "" THEN st
    ELSE IF v # "MainStack" /\ tables.none
    THEN \* `for (table, _) in tables` over None
         [st EXCEPT !.error = "TypeError", !.errorAt = "lambda"]
    ELSE IF id \in st.scope
    THEN [st EXCEPT !.error = "DuplicateConstruct", !.errorAt = "lambda"]
    ELSE [st EXCEPT !.scope = @ \cup {id},
                    !.lambdas = Put(@, id, [env |-> LambdaEnv(v, tables, st.queue),
                                            queue |-> st.queue,
                                            tables |-> OrEmpty(tables),
                                            buckets |-> OrEmpty(buckets)]),
                    !.grants = @ \cup GrantsOf(id, tables, buckets),
                    !.lam = id]

\* if _queue: _queue.grant_send_messages(_lambda)
GrantSendAndConsume(st) ==
    IF st.error # "" \/ st.queue = NoQueue THEN st
    ELSE [st EXCEPT !.grants = @ \cup
            {[principal |-> st.lam, store |-> st.queue, statement |-> "grant_send_messages"],
             [principal |-> st.lam, store |-> st.queue, statement |-> "grant_consume_messages"]}]
GrantSend(st) ==
    IF st.error # "" \/ st.queue = NoQueue THEN st
    ELSE [st EXCEPT !.grants = @ \cup {[principal |-> st.lam, store |-> st.queue,
                                        statement |-> "grant_send_messages"]}]

\* _resource.add_method(http_method, LambdaIntegration(_lambda)): a Method
\* construct whose id is the http method, in the scope of the resource node.
AddMethodReplacing(st, http_method) ==
    IF st.error # "" THEN st
    ELSE [st EXCEPT !.mth = Put(@, <<st.node, http_method>>, st.lam)]
AddMethod(st, http_method) ==
    IF st.error # "" THEN st
    ELSE IF Has(st.mth, <<st.node, http_method>>)
    THEN [st EXCEPT !.error = "DuplicateConstruct", !.errorAt = "method"]
    ELSE [st EXCEPT !.mth = Put(@, <<st.node, http_method>>, st.lam)]

\* for secret_name, secret in secrets or []: grant_read, add_environment
RECURSIVE AddSecrets(_, _)
AddSecrets(st, secrets) ==
    IF st.error # "" \/ secrets = <<>> THEN st
    ELSE LET name == Head(secrets)
             st1 == [st EXCEPT
                        !.grants = @ \cup {[principal |-> st.lam, store |-> name,
                                            statement |-> "secret.grant_read"]},
                        !.lambdas = Put(@, st.lam,
                            [@[st.lam] EXCEPT !.env = Put(@, name, "secret:" \o name)])]
         IN  AddSecrets(st1, Tail(secrets))

\* _id if not filename_overwrite else filename_overwrite
LambdaId(resource_name, http_method, filename_overwrite) ==
    IF filename_overwrite = NoOverwrite
    THEN resource_name \o "_" \o http_method
    ELSE filename_overwrite

\* The whole of add(), as the composition of its statements on the stack state.
AddResult(st0, v, http_method, resource_name, proxy, filename_overwrite, tables, buckets, secrets, create_queue) ==
    AddSecrets(
        AddMethod(
            GrantSend(
                CreateLambda(
                    CreateQueue(
                        ResolveResource(st0, v, resource_name, proxy),
                        resource_name, create_queue),
                    v, LambdaId(resource_name, http_method, filename_overwrite),
                    tables, buckets)),
            http_method),
        OrEmpty(secrets))

StackState ==
    [reg |-> apigw_resources, res |-> resources, mth |-> methods, scope |-> scope,
     lambdas |-> lambdas, queues |-> queues, grants |-> grants,
     error |-> "", errorAt |-> "", node |-> NoNode, queue |-> NoQueue, lam |-> ""]

Add(http_method, resource_name, proxy, filename_overwrite, tables, buckets, secrets, create_queue) ==
    /\ status = "building"
    /\ nCalls < MaxAdds
    /\ variant = "NdMainStack" => (~proxy /\ filename_overwrite = NoOverwrite)
    /\ \E st \in {AddResult(StackState, variant, http_method, resource_name, proxy,
                             filename_overwrite, tables, buckets, secrets, create_queue)},
          key \in {RegistryKey(variant, resource_name, proxy)} :
           /\ apigw_resources' = st.reg
           /\ resources' = st.res
           /\ methods' = st.mth
           /\ scope' = st.scope
           /\ lambdas' = st.lambdas
           /\ queues' = st.queues
           /\ grants' = st.grants
           /\ status' = IF st.error = "" THEN "building" ELSE "failed"
           /\ lastCall' = [n |-> nCalls + 1,
                           http_method |-> http_method,
                           resource_name |-> resource_name,
                           proxy |-> proxy,
                           filename_overwrite |-> filename_overwrite,
                           create_queue |-> create_queue,
                           known |-> Has(apigw_resources, key),
                           boundTo |-> IF /\ Has(apigw_resources, key)
                                          /\ Has(methods, <<apigw_resources[key], http_method>>)
                                       THEN methods[<<apigw_resources[key], http_method>>]
                                       ELSE "",
                           nodesBefore |-> Cardinality(DOMAIN resources),
                           error |-> st.error,
                           errorAt |-> st.errorAt,
                           node |-> st.node,
                           lam |-> st.lam,
                           queue |-> st.queue]
    /\ nCalls' = nCalls + 1
    /\ UNCHANGED <<variant, consumers, triggers, ingestVars>>

NoCall ==
    [n |-> 0, http_method |-> "", resource_name |-> "", proxy |-> FALSE,
     filename_overwrite |-> NoOverwrite, create_queue |-> FALSE, known |-> FALSE,
     boundTo |-> "", nodesBefore |-> 0, error |-> "", errorAt |-> "",
     node |-> NoNode, lam |-> "", queue |-> NoQueue]

InitStack ==
    /\ variant \in {"MainStack", "NdMainStack"}
    /\ apigw_resources = EmptyMap
    /\ resources = EmptyMap
    /\ methods = EmptyMap
    /\ scope = InitialScope(variant)
    /\ lambdas = EmptyMap
    /\ queues = {}
    /\ grants = {}
    /\ consumers = EmptyMap
    /\ triggers = {}
    /\ status = "building"
    /\ lastCall = NoCall
    /\ nCalls = 0

\* The arguments the routes are declared with.
HttpMethods == {"GET", "OPTIONS"}
ResourceNames == {"credentials", "ml-models"}
Overwrites == {NoOverwrite, "credentials_proxy_OPTIONS"}
TableArgs == {NoneArg, ListArg(<<<<"Users", "READ">>, <<"Creds", "READ_WRITE">>>>)}
BucketArgs == {NoneArg}
SecretArgs == {NoneArg}

AddRoute ==
    \E m \in HttpMethods, r \in ResourceNames, p \in BOOLEAN, f \in Overwrites,
       t \in TableArgs, b \in BucketArgs, s \in SecretArgs, q \in BOOLEAN :
        Add(m, r, p, f, t, b, s, q)

\* What a statement lets its principal do to the store it is attached to:
\* the grant methods of a CDK Table, Bucket, Queue and Secret, and the managed
\* policies. grant_full_access is dynamodb:* on the table, which takes in
\* the administration of the table besides reading and writing its data.
Rights(statement) ==
    CASE statement \in {"grant_read_data", "grant_read", "secret.grant_read"} -> {"read"}
      [] statement \in {"grant_write_data", "grant_write"} -> {"write"}
      [] statement \in {"grant_read_write_data", "grant_read_write"} -> {"read", "write"}
      [] statement = "grant_full_access" -> {"read", "write", "admin"}
      [] statement = "grant_send_messages" -> {"send"}
      [] statement = "grant_consume_messages" -> {"consume"}
      [] statement = "AmazonSQSFullAccess" -> {"send", "consume", "admin"}
      [] OTHER -> {}

\* ------------------------------------------------ the queue consumers
\* class Permission(Enum)
Permissions == {"READ", "WRITE", "READ_WRITE"}

\* The managed policies attached to the role of new_user_lambda and of
\* delete_user_lambda; each covers every resource of its service.
ManagedPolicies ==
    {"AWSCertificateManagerFullAccess", "AmazonSQSFullAccess",
     "AmazonRoute53FullAccess", "AmazonAPIGatewayAdministrator"}
ManagedGrants(id) ==
    {[principal |-> id, store |-> "*", statement |-> p] : p \in ManagedPolicies}

\* queue.grant_consume_messages(fn); queue.grant_send_messages(fn)
ConsumeAndSend(id, queue) ==
    {[principal |-> id, store |-> queue, statement |-> "grant_consume_messages"],
     [principal |-> id, store |-> queue, statement |-> "grant_send_messages"]}

\* NdMainStack: self.apis.grant_read_write_data(fn); fn.add_environment(...)
ApisGrant(id) == {[principal |-> id, store |-> "APIs", statement |-> "grant_read_write_data"]}

\* The environment new_user_lambda and delete_user_lambda are constructed with.
ConsumerEnv(v, queue) ==
    IF v = "MainStack"
    THEN [k \in {"hosted_zone_id", "region_name", "queue"} |->
            IF k = "hosted_zone_id" THEN "HostedZone"
            ELSE IF k = "region_name" THEN RegionName ELSE QueueUrl(queue)]
    ELSE [k \in {"hosted_zone_id"} |-> "HostedZone"]

\* create_new_user_lambda(). signup is the worker of the LambdaQueueTuple
\* that create_api_gateway_and_lambdas() kept as POST_signup. With no queue
\* in that tuple, `self.POST_signup.queue.queue_url` raises while the
\* arguments of lambda_.Function are evaluated (MainStack), and
\* `self.POST_signup.queue.grant_consume_messages` raises after the function
\* was constructed (NdMainStack).
CreateNewUserLambda(signup) ==
    /\ status = "building"
    /\ signup \in DOMAIN lambdas
    /\ \E q \in {lambdas[signup].queue}, id \in {"new_user_lambda"} :
         IF (variant = "MainStack" /\ q = NoQueue) \/ id \in scope
         THEN /\ status' = "failed"
              /\ UNCHANGED <<scope, consumers, grants, triggers>>
         ELSE IF q = NoQueue
         THEN /\ status' = "failed"
              /\ scope' = scope \cup {id}
              /\ consumers' = Put(consumers, id, ConsumerEnv(variant, q))
              /\ UNCHANGED <<grants, triggers>>
         ELSE /\ scope' = scope \cup {id}
              /\ consumers' = Put(consumers, id,
                    IF variant = "MainStack" THEN ConsumerEnv(variant, q)
                    ELSE Put(ConsumerEnv(variant, q), "APIs", TableArn("APIs")))
              /\ grants' = grants \cup ConsumeAndSend(id, q) \cup ManagedGrants(id)
                              \cup (IF variant = "MainStack" THEN {} ELSE ApisGrant(id))
              /\ triggers' = triggers \cup {[lambda |-> id, queue |-> q, batch_size |-> 1]}
              /\ status' = "new_user_done"
    /\ UNCHANGED <<variant, apigw_resources, resources, methods, lambdas, queues,
                   lastCall, nCalls, ingestVars>>

\* create_delete_user_lambda(). MainStack creates delete_queue and the
\* function, and grants the function send and consume on the queue;
\* NdMainStack creates the function alone.
CreateDeleteUserLambda ==
    /\ status = "new_user_done"
    /\ \E q \in {"delete_queue"}, id \in {"delete_user_lambda"} :
         IF variant = "MainStack"
         THEN IF q \in scope
              THEN /\ status' = "failed"
                   /\ UNCHANGED <<scope, queues, consumers, grants>>
              ELSE IF id \in scope
              THEN /\ status' = "failed"
                   /\ scope' = scope \cup {q}
                   /\ queues' = queues \cup {q}
                   /\ UNCHANGED <<consumers, grants>>
              ELSE /\ scope' = scope \cup {q, id}
                   /\ queues' = queues \cup {q}
                   /\ consumers' = Put(consumers, id, ConsumerEnv(variant, q))
                   /\ grants' = grants \cup ConsumeAndSend(id, q) \cup ManagedGrants(id)
                   /\ status' = "finished"
         ELSE IF id \in scope
              THEN /\ status' = "failed"
                   /\ UNCHANGED <<scope, queues, consumers, grants>>
              ELSE /\ scope' = scope \cup {id}
                   /\ consumers' = Put(consumers, id,
                         Put(ConsumerEnv(variant, q), "APIs", TableArn("APIs")))
                   /\ grants' = grants \cup ManagedGrants(id) \cup ApisGrant(id)
                   /\ status' = "finished"
                   /\ UNCHANGED queues
    /\ UNCHANGED <<variant, apigw_resources, resources, methods, lambdas, triggers,
                   lastCall, nCalls, ingestVars>>

\* The stores and access levels the workers of the routes are declared with.
WorkerTableArgs ==
    {NoneArg,
     ListArg(<<<<"Users", "READ">>, <<"Creds", "READ_WRITE">>>>),
     ListArg(<<<<"Models", "WRITE">>, <<"Usages", "ADMIN">>>>)}
WorkerBucketArgs ==
    {NoneArg,
     ListArg(<<<<"models_bucket", "READ">>, <<"logs_bucket", "WRITE">>>>),
     ListArg(<<<<"models_bucket", "READ_WRITE">>, <<"logs_bucket", "ADMIN">>>>)}

AddWorker ==
    \E m \in HttpMethods, r \in ResourceNames, t \in WorkerTableArgs,
       b \in WorkerBucketArgs, q \in BOOLEAN :
        /\ nCalls < MaxRoutes
        /\ Add(m, r, FALSE, NoOverwrite, t, b, NoneArg, q)

\* ==================================================================
\*  Staging trigger: s3_staging_trigger.py
\* ==================================================================

\* The bucket the trigger listens on (create_staging_bucket) and the bucket
\* main() moves objects to (MODELS_S3_BUCKET).
StagingBucket == Prefix \o "-staging-" \o RegionName
ModelsBucketIsStaging(region) == Prefix \o "-staging-" \o region
ModelsBucket(region) == Prefix \o "-models-" \o region

\* Object keys in the staging bucket, and the tags an upload carries.
StagingKeys == {"obj1", "obj2"}
Usernames == {"alice"}
ModelNames == {"m1", "m2"}
Mops == {"model", "preprocessing"}
Metadatas == [mop : Mops, username : Usernames, model_name : ModelNames]

\* The S3 event record of an object created in the staging bucket.
EventOf(k) == [awsRegion |-> RegionName, bucket |-> StagingBucket, key |-> k]
Events == {EventOf(k) : k \in StagingKeys}

\* The buckets whose object-created events invoke the trigger:
\* S3EventSource(self.staging_bucket, events=[OBJECT_CREATED]).
TriggerBuckets == {StagingBucket}

\* The notifications the creation of an object gives rise to.
Notifications(region, bucket, key) ==
    IF bucket \in TriggerBuckets
    THEN {[awsRegion |-> region, bucket |-> bucket, key |-> key]}
    ELSE {}
Batches == UNION {[1..n -> Events] : n \in 1..MaxRecords}

Procs == {"p1", "p2"}

NoMeta == [mop |-> "", username |-> "", model_name |-> ""]
NoTuple == [bucket |-> "", key |-> ""]
s3_tuple(bucket, key) == [bucket |-> bucket, key |-> key]

\* Key of an item of the Models table, as the statement of get_model selects it.
ItemKey(username, model_name) == <<"username|" \o username, model_name>>

\* An item another part of the system created for a model before any upload.
BaseItem(k) == [pk |-> k[1], sk |-> k[2], model_type |-> "tensorflow"]

\* The calls main() makes to S3 and DynamoDB for one record, in order; the
\* position of an invocation inside main() is the call it is about to make.
CallPcs == {"get_object", "copy", "delete", "get_model", "put_item"}

\* How many times main() has issued each call for the current record.
NoCalls == [c \in CallPcs |-> 0]
Issued(me) == [me.calls EXCEPT ![me.pc] = @ + 1]

Idle ==
    [pc |-> "idle", batch |-> <<>>, i |-> 0, outcomes |-> <<>>, meta |-> NoMeta,
     to |-> NoTuple, read |-> EmptyMap, record |-> EmptyMap, calls |-> NoCalls,
     pre |-> [s3 |-> EmptyMap, table |-> EmptyMap]]

InitIngest ==
    /\ \E present \in SUBSET StagingKeys :
       \E m \in [present -> Metadatas] :
          /\ s3objects = [o \in {<<StagingBucket, k>> : k \in present} |-> m[o[2]]]
          /\ pending = {EventOf(k) : k \in present}
    /\ \E have \in SUBSET (Usernames \X ModelNames) :
          table = [k \in {ItemKey(um[1], um[2]) : um \in have} |-> BaseItem(k)]
    /\ clock = 1
    /\ inv = [p \in Procs |-> Idle]
    /\ log = <<>>
    /\ hist = <<>>
    /\ nDeliv = 0

\* main(): the destination key chosen from the "mop" tag.
DestKey(meta) ==
    IF meta.mop = "model"
    THEN meta.username \o "/" \o meta.model_name
    ELSE meta.username \o "/" \o meta.model_name \o "_preprocessing"

\* main(): the bucket argument passed to upsert_ml_model_record.
UpsertBucketArg(s3_bucket, models_bucket) == s3_bucket

\* upsert_ml_model_record(): record.update({...}); record[flag] = True
FlagOfModelOnly(for_model) == "is_uploaded"
FlagOf(for_model) == IF for_model THEN "is_uploaded" ELSE "is_preprocessing_uploaded"

UpsertReplace(record, now, bucket, key, for_model) ==
    Put(Put(Put(Put([pk |-> record.pk, sk |-> record.sk],
        "updated_at", now), "bucket", bucket), "key", key), FlagOf(for_model), TRUE)
UpsertRecord(record, now, bucket, key, for_model) ==
    Put(Put(Put(Put(record,
        "updated_at", now), "bucket", bucket), "key", key), FlagOf(for_model), TRUE)

\* handler(): `except Exception as err`. Every error raised below is an
\* Exception; an error not caught would leave handler().
CaughtOnlyNotFound(err) == err = "NotFound"
Caught(err) == TRUE

\* The last two finished records.
Last2(h) == IF Len(h) > 2 THEN SubSeq(h, Len(h) - 1, Len(h)) ELSE h

\* End of one iteration of handler()'s loop over event["Records"].
EndRecord(p, outcome, s3n, tabn, continue) ==
    LET me == inv[p]
        more == continue /\ me.i < Len(me.batch)
    IN  /\ hist' = Last2(Append(hist,
                [event |-> me.batch[me.i], outcome |-> outcome, meta |-> me.meta,
                 to |-> me.to, pre |-> me.pre,
                 post |-> [s3 |-> s3n, table |-> tabn],
                 at |-> me.pc, calls |-> Issued(me), read |-> me.read]))
        /\ inv' = [inv EXCEPT ![p] =
                [me EXCEPT !.outcomes = Append(@, outcome),
                           !.i = IF more THEN @ + 1 ELSE @,
                           !.pc = IF more THEN "get_object"
                                  ELSE IF continue THEN "returned" ELSE "raised",
                           !.meta = NoMeta, !.to = NoTuple, !.record = EmptyMap,
                           !.read = EmptyMap,
                           !.calls = NoCalls,
                           !.pre = [s3 |-> s3n, table |-> tabn]]]

\* main(record) raised err: the except clause of handler() calls
\* logger.error with the record and the error, then logger.exception with
\* the error, and the loop goes on; an error it does not catch leaves
\* handler().
RaiseLoggingOnce(p, err) ==
    /\ log' = Append(log, [call |-> "error", event |-> inv[p].batch[inv[p].i],
                           error |-> err])
    /\ EndRecord(p, err, s3objects, table, TRUE)
Raise(p, err) ==
    /\ log' = IF Caught(err)
              THEN log \o <<[call |-> "error", event |-> inv[p].batch[inv[p].i],
                             error |-> err],
                            [call |-> "exception", error |-> err]>>
              ELSE log
    /\ EndRecord(p, err, s3objects, table, Caught(err))

\* The event source invokes handler(event, context).
Invoke(p, batch) ==
    /\ inv[p].pc \in {"idle", "returned", "raised", "crashed"}
    /\ nDeliv + Len(batch) <= MaxRecords
    /\ nDeliv' = nDeliv + Len(batch)
    /\ inv' = [inv EXCEPT ![p] =
            [Idle EXCEPT !.pc = "get_object", !.batch = batch, !.i = 1,
                         !.pre = [s3 |-> s3objects, table |-> table]]]
    /\ UNCHANGED <<s3objects, table, clock, log, hist, pending, stackVars>>

\* The event source delivers a notification that was waiting: handler() is
\* invoked with the one record of that notification.
Deliver(p) ==
    /\ inv[p].pc \in {"idle", "returned", "raised", "crashed"}
    /\ \E e \in pending :
         /\ pending' = pending \ {e}
         /\ inv' = [inv EXCEPT ![p] =
                 [Idle EXCEPT !.pc = "get_object", !.batch = <<e>>, !.i = 1,
                              !.pre = [s3 |-> s3objects, table |-> table]]]
    /\ nDeliv' = nDeliv + 1
    /\ UNCHANGED <<s3objects, table, clock, log, hist, stackVars>>

\* get_attributes(): s3.get_object; NoSuchKey is re-raised as Exception,
\* otherwise response["Metadata"] is returned.
GetAttributesStale(s3, bucket_name, object_name) ==
    IF Has(s3, <<bucket_name, object_name>>)
    THEN [found |-> TRUE, metadata |-> s3[<<bucket_name, object_name>>]]
    ELSE [found |-> TRUE,
          metadata |-> [mop |-> "model", username |-> "alice", model_name |-> "m1"]]
GetAttributes(s3, bucket_name, object_name) ==
    IF Has(s3, <<bucket_name, object_name>>)
    THEN [found |-> TRUE, metadata |-> s3[<<bucket_name, object_name>>]]
    ELSE [found |-> FALSE, metadata |-> NoMeta]

\* main(): get_attributes, then the destination computed from the metadata.
GetObject(p) ==
    LET me == inv[p]
        ev == me.batch[me.i]
    IN  /\ me.pc = "get_object"
        /\ \E r \in {GetAttributes(s3objects, ev.bucket, ev.key)} :
             IF r.found
             THEN /\ inv' = [inv EXCEPT ![p] =
                        [me EXCEPT !.pc = "copy", !.calls = Issued(me),
                                   !.meta = r.metadata,
                                   !.to = s3_tuple(ModelsBucket(ev.awsRegion),
                                                   DestKey(r.metadata))]]
                  /\ UNCHANGED <<log, hist>>
             ELSE Raise(p, "NotFound")
        /\ UNCHANGED <<s3objects, table, clock, nDeliv, pending, stackVars>>

\* move_object(): bucket.copy(copy_source, to_.key)
CopySkipped(p) ==
    /\ inv[p].pc = "copy"
    /\ inv' = [inv EXCEPT ![p] = [inv[p] EXCEPT !.pc = "delete",
                                                !.calls = Issued(inv[p])]]
    /\ UNCHANGED <<s3objects, log, hist, table, clock, nDeliv, pending, stackVars>>
Copy(p) ==
    LET me == inv[p]
        ev == me.batch[me.i]
        src == <<ev.bucket, ev.key>>
    IN  /\ me.pc = "copy"
        /\ IF Has(s3objects, src)
           THEN /\ s3objects' = Put(s3objects, <<me.to.bucket, me.to.key>>, s3objects[src])
                /\ pending' = pending \cup Notifications(ev.awsRegion, me.to.bucket, me.to.key)
                /\ inv' = [inv EXCEPT ![p] = [me EXCEPT !.pc = "delete",
                                                        !.calls = Issued(me)]]
                /\ UNCHANGED <<log, hist>>
           ELSE /\ Raise(p, "ClientError")
                /\ UNCHANGED <<s3objects, pending>>
        /\ UNCHANGED <<table, clock, nDeliv, stackVars>>

\* move_object(): s3r.Object(from_.bucket, from_.key).delete()
DeleteTargetDest(from_, to_) == <<to_.bucket, to_.key>>
DeleteTargetNothing(from_, to_) == <<"", "">>
DeleteTarget(from_, to_) == <<from_.bucket, from_.key>>

DeleteSkipped(p) ==
    /\ inv[p].pc = "delete"
    /\ inv' = [inv EXCEPT ![p].pc = "get_model"]
    /\ UNCHANGED <<s3objects, table, clock, log, hist, nDeliv, pending, stackVars>>
Delete(p) ==
    LET me == inv[p]
        ev == me.batch[me.i]
        gone == DeleteTarget(s3_tuple(ev.bucket, ev.key), me.to)
    IN  /\ me.pc = "delete"
        /\ s3objects' = [o \in DOMAIN s3objects \ {gone} |-> s3objects[o]]
        /\ inv' = [inv EXCEPT ![p] = [me EXCEPT !.pc = "get_model",
                                                !.calls = Issued(me)]]
        /\ UNCHANGED <<table, clock, log, hist, nDeliv, pending, stackVars>>

\* helpers.dynamodb.from_ (the helpers package is not part of the sources):
\* the item execute_statement returned, as the dict put_item takes.
from_(item) == item

\* upsert_ml_model_record(): get_model(), whose [0] on an empty result raises
\* IndexError, then the update of the record read.
GetModel(p) ==
    LET me == inv[p]
        ev == me.batch[me.i]
        k == ItemKey(me.meta.username, me.meta.model_name)
    IN  /\ me.pc = "get_model"
        /\ IF Has(table, k)
           THEN /\ inv' = [inv EXCEPT ![p] =
                        [me EXCEPT !.pc = "put_item", !.calls = Issued(me),
                                   !.read = from_(table[k]),
                                   !.record = UpsertRecord(from_(table[k]), clock,
                                        UpsertBucketArg(ev.bucket, me.to.bucket),
                                        me.to.key, me.meta.mop = "model")]]
                /\ clock' = clock + 1
                /\ UNCHANGED <<log, hist>>
           ELSE /\ Raise(p, "IndexError")
                /\ UNCHANGED clock
        /\ UNCHANGED <<s3objects, table, nDeliv, pending, stackVars>>

\* upsert_ml_model_record(): MODELS_TABLE.put_item(Item=record); main() returns.
PutItemMerging(p) ==
    LET me == inv[p]
        k == <<me.record.pk, me.record.sk>>
        now == IF Has(table, k) THEN table[k] ELSE EmptyMap
        tabn == Put(table, k, [f \in DOMAIN now \cup DOMAIN me.record |->
                                 IF f \in DOMAIN me.record THEN me.record[f] ELSE now[f]])
    IN  /\ me.pc = "put_item"
        /\ table' = tabn
        /\ EndRecord(p, "ok", s3objects, tabn, TRUE)
        /\ UNCHANGED <<s3objects, clock, log, nDeliv, pending, stackVars>>
PutItem(p) ==
    LET me == inv[p]
        tabn == Put(table, <<me.record.pk, me.record.sk>>, me.record)
    IN  /\ me.pc = "put_item"
        /\ table' = tabn
        /\ EndRecord(p, "ok", s3objects, tabn, TRUE)
        /\ UNCHANGED <<s3objects, clock, log, nDeliv, pending, stackVars>>

\* A call to S3 or DynamoDB fails (throttling, network): boto3 raises, and
\* nothing between the call and the except clause of handler() catches the
\* error or issues the call again.
Fail(p) ==
    /\ inv[p].pc \in CallPcs
    /\ Raise(p, "IOError")
    /\ UNCHANGED <<s3objects, table, clock, nDeliv, pending, stackVars>>

\* The invocation is killed (timeout, out of memory) in the middle of main().
Crash(p) ==
    LET me == inv[p]
    IN  /\ me.pc \in CallPcs
        /\ hist' = Last2(Append(hist,
                [event |-> me.batch[me.i], outcome |-> "Crash", meta |-> me.meta,
                 to |-> me.to, pre |-> me.pre,
                 post |-> [s3 |-> s3objects, table |-> table],
                 at |-> me.pc, calls |-> me.calls, read |-> me.read]))
        /\ inv' = [inv EXCEPT ![p].pc = "crashed"]
        /\ UNCHANGED <<s3objects, table, clock, log, nDeliv, pending, stackVars>>

\* ==================================================================
\*  Specifications
\* ==================================================================

\* The composition of the routes of one stack; the trigger is not running.
IngestAtRest ==
    /\ pending = {}
    /\ s3objects = EmptyMap
    /\ table = EmptyMap
    /\ clock = 1
    /\ inv = [p \in Procs |-> Idle]
    /\ log = <<>>
    /\ hist = <<>>
    /\ nDeliv = 0

InitOfStack == InitStack /\ IngestAtRest
NextStack == AddRoute
SpecStack == InitOfStack /\ [][NextStack]_vars

\* The stack from the first route to the last queue consumer: the part of
\* __init__ from create_api_gateway_and_lambdas() to
\* create_delete_user_lambda().
NextTopology ==
    \/ AddWorker
    \/ \E l \in DOMAIN lambdas : CreateNewUserLambda(l)
    \/ CreateDeleteUserLambda
SpecTopology == InitOfStack /\ [][NextTopology]_vars

\* The deployed trigger; the stack is not being composed.
StackAtRest ==
    /\ variant = "MainStack"
    /\ apigw_resources = EmptyMap
    /\ resources = EmptyMap
    /\ methods = EmptyMap
    /\ scope = InitialScope(variant)
    /\ lambdas = EmptyMap
    /\ queues = {}
    /\ grants = {}
    /\ consumers = EmptyMap
    /\ triggers = {}
    /\ status = "building"
    /\ lastCall = NoCall
    /\ nCalls = 0

\* Deliveries handled one after the other by the trigger.
NextIngest ==
    \/ \E b \in Batches : Invoke("p1", b)
    \/ GetObject("p1")
    \/ Copy("p1")
    \/ Delete("p1")
    \/ GetModel("p1")
    \/ PutItem("p1")
    \/ Fail("p1")
    \/ Crash("p1")
InitOfIngest == InitIngest /\ StackAtRest
SpecIngest == InitOfIngest /\ [][NextIngest]_vars

\* A burst of uploads: every object of the staging bucket has its
\* notification waiting, each notification is delivered once, and the
\* notifications of the objects the processing creates join those waiting.
NextBurst ==
    \/ Deliver("p1")
    \/ GetObject("p1")
    \/ Copy("p1")
    \/ Delete("p1")
    \/ GetModel("p1")
    \/ PutItem("p1")
    \/ Fail("p1")
    \/ Crash("p1")
SpecBurst == InitOfIngest /\ [][NextBurst]_vars

\* Two invocations of the trigger running at the same time: two objects of
\* one model were uploaded, the index holds an item for every model, and the
\* event source invokes handler() for one event while an invocation for the
\* other is still at work.
InitConcurrent ==
    /\ \E m \in [StagingKeys -> Metadatas] :
          /\ \A k1, k2 \in StagingKeys : m[k1].model_name = m[k2].model_name
          /\ s3objects = [o \in {<<StagingBucket, k>> : k \in StagingKeys} |-> m[o[2]]]
    /\ table = [k \in {ItemKey(um[1], um[2]) : um \in Usernames \X ModelNames} |-> BaseItem(k)]
    /\ clock = 1
    /\ inv = [p \in Procs |-> Idle]
    /\ log = <<>>
    /\ hist = <<>>
    /\ nDeliv = 0
    /\ pending = Events
NextConcurrent ==
    \/ \E p \in Procs, e \in Events : Invoke(p, <<e>>)
    \/ \E p \in Procs : GetObject(p)
    \/ \E p \in Procs : Copy(p)
    \/ \E p \in Procs : Delete(p)
    \/ \E p \in Procs : GetModel(p)
    \/ \E p \in Procs : PutItem(p)
    \/ \E p \in Procs : Fail(p)
InitOfConcurrent == InitConcurrent /\ StackAtRest
SpecConcurrent == InitOfConcurrent /\ [][NextConcurrent]_vars

\* ==================================================================
\*  Properties of the route composition (SpecStack)
\* ==================================================================

\* The nodes of the API tree that stand for a registry key: the child of the
\* root named resource_name, or the {proxy+} child of that child.
NodesFor(key) ==
    IF ~key[2]
    THEN {n \in DOMAIN resources :
            resources[n] = [parent |-> Root, pathPart |-> key[1]]}
    ELSE {n \in DOMAIN resources :
            /\ resources[n].pathPart = ProxyPart
            /\ resources[n].parent \in DOMAIN resources
            /\ resources[resources[n].parent] = [parent |-> Root, pathPart |-> key[1]]}

AllKeys == ResourceNames \X BOOLEAN

LastKey == RegistryKey(variant, lastCall.resource_name, lastCall.proxy)

\* C1: the registry holds at most one path node per (resource_name, proxy)
\* key, every node of the tree is the node of exactly one registered key, and
\* an add() whose key was already registered creates no node, does not fail on
\* the resource, and attaches its method to the registered node.
C1_OneNodePerKey ==
    /\ \A key \in AllKeys : Cardinality(NodesFor(key)) <= 1
    /\ \A key \in DOMAIN apigw_resources : NodesFor(key) = {apigw_resources[key]}
    /\ \A n \in DOMAIN resources : \E key \in DOMAIN apigw_resources : apigw_resources[key] = n
    /\ lastCall.known =>
          /\ Cardinality(DOMAIN resources) = lastCall.nodesBefore
          /\ lastCall.errorAt # "resource"
          /\ lastCall.node = apigw_resources[LastKey]
          /\ lastCall.error = "" =>
                /\ Has(methods, <<apigw_resources[LastKey], lastCall.http_method>>)
                /\ methods[<<apigw_resources[LastKey], lastCall.http_method>>] = lastCall.lam

\* Two routes with different methods share the node of an already registered key.
C1_Witness ==
    /\ lastCall.known
    /\ lastCall.error = ""
    /\ \E m \in HttpMethods \ {lastCall.http_method} : Has(methods, <<lastCall.node, m>>)

\* C2: a literal node and a wildcard node of the same resource name are
\* registered under distinct keys and are distinct nodes: the literal key names
\* the child of the root, the wildcard key names the {proxy+} child of that
\* literal node.
C2_LiteralAndWildcardApart ==
    \A name \in ResourceNames :
        /\ Has(apigw_resources, <<name, FALSE>>) =>
              resources[apigw_resources[<<name, FALSE>>]] = [parent |-> Root, pathPart |-> name]
        /\ Has(apigw_resources, <<name, TRUE>>) =>
              /\ Has(apigw_resources, <<name, FALSE>>)
              /\ apigw_resources[<<name, TRUE>>] # apigw_resources[<<name, FALSE>>]
              /\ resources[apigw_resources[<<name, TRUE>>]] =
                    [parent |-> apigw_resources[<<name, FALSE>>], pathPart |-> ProxyPart]

\* Both nodes of one name are registered and each carries a route of the same method.
C2_Witness ==
    \E name \in ResourceNames, m \in HttpMethods :
        /\ Has(apigw_resources, <<name, FALSE>>)
        /\ Has(apigw_resources, <<name, TRUE>>)
        /\ Has(methods, <<apigw_resources[<<name, FALSE>>], m>>)
        /\ Has(methods, <<apigw_resources[<<name, TRUE>>], m>>)
        /\ status = "building"

\* C3: an add() for a (path node, method) pair that is already bound fails,
\* and the pair stays bound to the lambda of the first registration.
C3_BoundOnce ==
    lastCall.boundTo # "" =>
        /\ status = "failed"
        /\ lastCall.error # ""
        /\ methods[<<apigw_resources[LastKey], lastCall.http_method>>] = lastCall.boundTo

\* The second registration got as far as add_method and was rejected there.
C3_Witness ==
    /\ lastCall.boundTo # ""
    /\ lastCall.errorAt = "method"
    /\ lastCall.lam # lastCall.boundTo

\* The path of a node of the tree, from the root: the nodes add() creates
\* are children of the root and {proxy+} children of those.
PathOf(n) ==
    IF resources[n].parent = Root
    THEN <<resources[n].pathPart>>
    ELSE <<resources[resources[n].parent].pathPart, resources[n].pathPart>>
PathTree == {PathOf(n) : n \in DOMAIN resources}

\* The path add() gives the node of a registry key.
PathOfKey(key) == IF key[2] THEN <<key[1], ProxyPart>> ELSE <<key[1]>>

\* C25: the path tree is determined by the set of registered keys, whatever
\* the order of the registrations: its paths are those of the keys, one node
\* each; a registered wildcard key has its literal key registered, whose node
\* is the parent of the wildcard node; and in either order the resolution of
\* the path node does not fail and leaves the key of the route registered.
C25_OrderIndependentTree ==
    /\ PathTree = {PathOfKey(key) : key \in DOMAIN apigw_resources}
    /\ Cardinality(DOMAIN resources) = Cardinality(DOMAIN apigw_resources)
    /\ \A name \in ResourceNames :
          Has(apigw_resources, <<name, TRUE>>) =>
             /\ Has(apigw_resources, <<name, FALSE>>)
             /\ resources[apigw_resources[<<name, TRUE>>]].parent = apigw_resources[<<name, FALSE>>]
             /\ resources[apigw_resources[<<name, FALSE>>]].parent = Root
    /\ lastCall.n > 0 =>
          /\ lastCall.errorAt # "resource"
          /\ Has(apigw_resources, LastKey)
          /\ PathOf(apigw_resources[LastKey]) = PathOfKey(LastKey)

\* The literal route was registered after the wildcard route of its name: it
\* found the literal node the wildcard registration had made, created no
\* node, and is the only route of that node.
C25_Witness ==
    /\ variant = "MainStack"
    /\ lastCall.n > 0 /\ ~lastCall.proxy /\ lastCall.known /\ lastCall.error = ""
    /\ lastCall.nodesBefore = Cardinality(DOMAIN resources)
    /\ Has(apigw_resources, <<lastCall.resource_name, TRUE>>)
    /\ \E m \in HttpMethods :
          Has(methods, <<apigw_resources[<<lastCall.resource_name, TRUE>>], m>>)
    /\ \A m \in HttpMethods :
          Has(methods, <<lastCall.node, m>>) <=> m = lastCall.http_method


\* ==================================================================
\*  Properties of the staging trigger (SpecIngest)
\* ==================================================================

\* The finished records the history holds.
Finished == {hist[i] : i \in DOMAIN hist}

Source(h) == <<h.event.bucket, h.event.key>>
Dest(h) == <<h.to.bucket, h.to.key>>
KeyOf(h) == ItemKey(h.meta.username, h.meta.model_name)

\* C4: when main() has returned for an event, the source object is absent from
\* the staging bucket and the object it held is present at the destination,
\* in the models bucket.
C4_MovedOnSuccess ==
    \A h \in Finished :
        h.outcome = "ok" =>
            /\ h.to.bucket = ModelsBucket(h.event.awsRegion)
            /\ ~Has(h.post.s3, Source(h))
            /\ Has(h.post.s3, Dest(h))
            /\ h.post.s3[Dest(h)] = h.pre.s3[Source(h)]

C4_Witness ==
    \E h \in Finished : h.outcome = "ok" /\ Has(h.pre.s3, Source(h))

\* C5: after an event is processed successfully, the bucket and key of the
\* index record are the destination bucket and key, and the object is present
\* at the location the record names.
C5_IndexNamesDestination ==
    \A h \in Finished :
        h.outcome = "ok" =>
            /\ h.post.table[KeyOf(h)].bucket = h.to.bucket
            /\ h.post.table[KeyOf(h)].key = h.to.key
            /\ Has(h.post.s3, <<h.post.table[KeyOf(h)].bucket, h.post.table[KeyOf(h)].key>>)

\* C6: the upsert merges: every field of the existing item other than
\* updated_at, bucket, key and the flag of the uploaded kind keeps its value,
\* and every other item of the table is left as it was.
C6_UpsertMerges ==
    \A h \in Finished :
        h.outcome = "ok" =>
            /\ \A f \in DOMAIN h.pre.table[KeyOf(h)] \
                        {"updated_at", "bucket", "key", FlagOf(h.meta.mop = "model")} :
                  /\ f \in DOMAIN h.post.table[KeyOf(h)]
                  /\ h.post.table[KeyOf(h)][f] = h.pre.table[KeyOf(h)][f]
            /\ \A k \in DOMAIN h.pre.table \ {KeyOf(h)} :
                  Has(h.post.table, k) /\ h.post.table[k] = h.pre.table[k]
            /\ DOMAIN h.post.table = DOMAIN h.pre.table

\* A model event on an item whose is_preprocessing_uploaded was already true,
\* or a preprocessing event on an item whose is_uploaded was already true.
C6_Witness ==
    \E h \in Finished :
        /\ h.outcome = "ok"
        /\ \/ /\ h.meta.mop = "model"
              /\ "is_preprocessing_uploaded" \in DOMAIN h.pre.table[KeyOf(h)]
              /\ h.post.table[KeyOf(h)].is_preprocessing_uploaded
              /\ h.post.table[KeyOf(h)].is_uploaded
           \/ /\ h.meta.mop = "preprocessing"
              /\ "is_uploaded" \in DOMAIN h.pre.table[KeyOf(h)]
              /\ h.post.table[KeyOf(h)].is_uploaded
              /\ h.post.table[KeyOf(h)].is_preprocessing_uploaded

\* C7: when no index record exists for (user, modelName), an event whose
\* object was read and whose calls to S3 and DynamoDB did not fail is
\* processed successfully and writes a record with partition key
\* "username|{user}", sort key modelName and the flag of the uploaded kind.
C7_UpsertCreatesRecord ==
    \A h \in Finished :
        (/\ h.meta # NoMeta
         /\ ~Has(h.pre.table, KeyOf(h))
         /\ h.outcome \notin {"IOError", "ClientError", "Crash"}) =>
            /\ h.outcome = "ok"
            /\ Has(h.post.table, KeyOf(h))
            /\ h.post.table[KeyOf(h)].pk = "username|" \o h.meta.username
            /\ h.post.table[KeyOf(h)].sk = h.meta.model_name
            /\ h.post.table[KeyOf(h)][FlagOf(h.meta.mop = "model")]

\* C8: handler() never raises, and when it returns every record of the batch
\* has been processed, whichever records failed; while it runs, the records
\* before the current one have all been processed.
C8_BatchIsolation ==
    \A p \in Procs :
        /\ inv[p].pc # "raised"
        /\ inv[p].pc = "returned" => Len(inv[p].outcomes) = Len(inv[p].batch)
        /\ inv[p].pc \in CallPcs => Len(inv[p].outcomes) = inv[p].i - 1

\* A record failed and a later record of the same batch succeeded.
C8_Witness ==
    \E p \in Procs :
        /\ inv[p].pc = "returned"
        /\ Len(inv[p].batch) = 2
        /\ inv[p].outcomes[1] # "ok"
        /\ inv[p].outcomes[2] = "ok"
        /\ Len(log) >= 1

\* An item without its updated_at, and a table of such items.
StripTime(item) == [f \in DOMAIN item \ {"updated_at"} |-> item[f]]
TableUpToTime(t) == [k \in DOMAIN t |-> StripTime(t[k])]

\* C9: when the same event is processed twice in sequence, the second
\* processing leaves the storage and, up to updated_at, the index as the
\* first left them; after a first success the source is absent and the
\* destination present.
C9_RedeliveryIdempotent ==
    (/\ Len(hist) = 2
     /\ hist[1].event = hist[2].event
     /\ hist[1].outcome \in {"ok", "NotFound", "IndexError"}) =>
        /\ hist[2].post.s3 = hist[1].post.s3
        /\ TableUpToTime(hist[2].post.table) = TableUpToTime(hist[1].post.table)
        /\ hist[1].outcome = "ok" =>
              /\ ~Has(hist[2].post.s3, Source(hist[1]))
              /\ Has(hist[2].post.s3, Dest(hist[1]))

\* The event was processed successfully, then delivered and processed again.
C9_Witness ==
    /\ Len(hist) = 2
    /\ hist[1].event = hist[2].event
    /\ hist[1].outcome = "ok"
    /\ hist[2].outcome = "NotFound"

\* C10: an event whose object is absent when get_attributes reads it ends as
\* a not-found failure, and storage and index are as they were before it.
C10_MissingObjectSkipped ==
    \A h \in Finished :
        (~Has(h.pre.s3, Source(h)) /\ h.outcome \notin {"IOError", "Crash"}) =>
            /\ h.outcome = "NotFound"
            /\ h.post = h.pre
            /\ h.to = NoTuple

C10_Witness ==
    \E h \in Finished :
        /\ h.outcome = "NotFound"
        /\ \E i \in DOMAIN log :
              log[i] = [call |-> "error", event |-> h.event, error |-> "NotFound"]

\* C11: a call to S3 or DynamoDB that fails transiently is issued a second
\* time before the record is given up: a record abandoned on such a failure
\* has had its failing call issued exactly twice, and no call is issued more
\* than twice for one record.
C11_RetriedOnce ==
    \A h \in Finished :
        /\ h.outcome = "IOError" => h.calls[h.at] = 2
        /\ \A c \in CallPcs : h.calls[c] <= 2

\* C12: the "mop" tag chooses the destination key and the flag together:
\* model gives {user}/{modelName} and sets is_uploaded, preprocessing gives
\* {user}/{modelName}_preprocessing and sets is_preprocessing_uploaded, and
\* a processing sets no flag other than the one of its kind.
C12_KeyAndFlagFollowKind ==
    \A h \in Finished :
        /\ (h.meta.mop = "model" /\ h.to # NoTuple) =>
              h.to.key = h.meta.username \o "/" \o h.meta.model_name
        /\ (h.meta.mop = "preprocessing" /\ h.to # NoTuple) =>
              h.to.key = h.meta.username \o "/" \o h.meta.model_name \o "_preprocessing"
        /\ h.outcome = "ok" =>
              LET new == h.post.table[KeyOf(h)]
                  old == h.pre.table[KeyOf(h)]
                  flag == IF h.meta.mop = "model" THEN "is_uploaded"
                          ELSE "is_preprocessing_uploaded"
              IN  /\ h.meta.mop \in {"model", "preprocessing"}
                  /\ flag \in DOMAIN new
                  /\ new[flag] = TRUE
                  /\ new.key = h.to.key
                  /\ \A f \in {"is_uploaded", "is_preprocessing_uploaded"} \ {flag} :
                        /\ f \in DOMAIN new <=> f \in DOMAIN old
                        /\ f \in DOMAIN old => new[f] = old[f]

\* The model and then the preprocessing of one model were processed.
C12_Witness ==
    /\ Len(hist) = 2
    /\ hist[1].outcome = "ok" /\ hist[1].meta.mop = "model"
    /\ hist[2].outcome = "ok" /\ hist[2].meta.mop = "preprocessing"
    /\ KeyOf(hist[1]) = KeyOf(hist[2])
    /\ hist[1].to.key # hist[2].to.key

\* Where main() sends the object an event names, from the tags the object
\* carried when the processing of the event began.
DestOfSource(s3, ev) ==
    <<ModelsBucket(ev.awsRegion), DestKey(s3[<<ev.bucket, ev.key>>])>>

\* C20: while and after an event is processed, crash or failure included, an
\* object that was in the staging bucket when the processing began is in the
\* staging bucket or at its destination; the delete of the source is issued
\* only after the copy of the same processing, with the copy in place.
C20_NoLossOnMove ==
    /\ \A p \in Procs :
          inv[p].pc \in CallPcs \cup {"crashed"} =>
             LET me == inv[p]
                 ev == me.batch[me.i]
             IN  /\ Has(me.pre.s3, <<ev.bucket, ev.key>>) =>
                       \/ Has(s3objects, <<ev.bucket, ev.key>>)
                       \/ Has(s3objects, DestOfSource(me.pre.s3, ev))
                 /\ (me.pc = "delete" \/ me.calls["delete"] >= 1) =>
                       /\ me.calls["copy"] = 1
                       /\ Has(s3objects, <<me.to.bucket, me.to.key>>)
    /\ \A h \in Finished :
          /\ Has(h.pre.s3, Source(h)) =>
                \/ Has(h.post.s3, Source(h))
                \/ Has(h.post.s3, DestOfSource(h.pre.s3, h.event))
          /\ h.calls["delete"] >= 1 =>
                /\ h.calls["copy"] = 1
                /\ Has(h.post.s3, Dest(h))

\* The invocation was killed between the copy and the delete: the object is
\* in both places.
C20_Witness ==
    \E p \in Procs :
        /\ inv[p].pc = "crashed"
        /\ inv[p].calls["copy"] = 1
        /\ inv[p].calls["delete"] = 0
        /\ Has(s3objects, <<inv[p].batch[inv[p].i].bucket, inv[p].batch[inv[p].i].key>>)
        /\ Has(s3objects, <<inv[p].to.bucket, inv[p].to.key>>)

\* ==================================================================
\*  Properties of the workers and queues of the routes (SpecStack)
\* ==================================================================

\* C15: an add() with create_queue, for a route not added before, that
\* reaches the creation of its queue creates a queue of its own: the creation
\* does not fail, and the queue is one no worker of an earlier call was
\* given, also when an earlier route of the same resource name asked for a
\* queue.
C15_QueuePerCall ==
    (lastCall.create_queue /\ lastCall.boundTo = "" /\ lastCall.errorAt # "resource") =>
        /\ lastCall.errorAt # "queue"
        /\ lastCall.queue # NoQueue
        /\ lastCall.queue \in queues
        /\ \A l \in DOMAIN lambdas \ {lastCall.lam} : lambdas[l].queue # lastCall.queue

\* C19: the worker add() builds is named {resource_name}_{http_method} when
\* no override is given and is named by the override otherwise; and a route
\* added without override, whose path node and method are not bound yet, is
\* not refused for its worker's name being that of another route's worker.
C19_WorkerIdentity ==
    /\ lastCall.lam # "" =>
          lastCall.lam = IF lastCall.filename_overwrite = NoOverwrite
                         THEN lastCall.resource_name \o "_" \o lastCall.http_method
                         ELSE lastCall.filename_overwrite
    /\ (lastCall.n > 0 /\ lastCall.filename_overwrite = NoOverwrite /\ lastCall.boundTo = "") =>
          ~(lastCall.error = "DuplicateConstruct" /\ lastCall.errorAt = "lambda")

\* ==================================================================
\*  Properties of grants, environments and queues (SpecTopology)
\* ==================================================================

\* What the statements attached to a principal let it do to a store.
StoreRights(l, store) ==
    UNION {Rights(g.statement) : g \in {x \in grants : x.principal = l /\ x.store = store}}

\* What a principal may do to a queue: by the statements attached for that
\* queue, and by a managed policy over every queue.
QueueRights(l, q) ==
    UNION {Rights(g.statement) :
             g \in {x \in grants : /\ x.principal = l
                                   /\ \/ x.store = q
                                      \/ x.store = "*" /\ x.statement = "AmazonSQSFullAccess"}}
    \cap {"send", "consume"}

\* The (store, access level) pairs a worker was built with.
StoresOf(l) ==
    {lambdas[l].tables[i] : i \in DOMAIN lambdas[l].tables}
    \cup {lambdas[l].buckets[i] : i \in DOMAIN lambdas[l].buckets}

\* C13: for every store a worker is built with, READ attaches the read
\* statement alone, WRITE the write statement alone, READ_WRITE the two of
\* them and nothing more; what READ_WRITE attaches takes in what READ and
\* what WRITE attach.
C13_GrantMapping ==
    /\ \A l \in DOMAIN lambdas : \A e \in StoresOf(l) :
          /\ e[2] = "READ" => StoreRights(l, e[1]) = {"read"}
          /\ e[2] = "WRITE" => StoreRights(l, e[1]) = {"write"}
          /\ e[2] = "READ_WRITE" => StoreRights(l, e[1]) = {"read", "write"}
    /\ Rights(TableGrant("READ")) \cup Rights(TableGrant("WRITE"))
          \subseteq Rights(TableGrant("READ_WRITE"))
    /\ Rights(BucketGrant("READ")) \cup Rights(BucketGrant("WRITE"))
          \subseteq Rights(BucketGrant("READ_WRITE"))

\* C14: a worker declared with an access level outside READ, WRITE,
\* READ_WRITE for a table or a bucket is not built: the add() fails with
\* ConfigurationError and nothing is attached to the worker for that store.
C14_OutOfDomainRejected ==
    \A l \in DOMAIN lambdas : \A e \in StoresOf(l) :
        e[2] \notin Permissions =>
            /\ status = "failed"
            /\ lastCall.error = "ConfigurationError"
            /\ StoreRights(l, e[1]) = {}

\* C16: the worker of a route added with create_queue may send to its queue
\* and may not consume from it; the consumer registered on a queue may send
\* to it and consume from it; a route added without create_queue gets no
\* queue, and its worker no right on any queue and no queue URL.
C16_QueueRights ==
    /\ \A l \in DOMAIN lambdas :
          IF lambdas[l].queue # NoQueue
          THEN /\ lambdas[l].queue \in queues
               /\ QueueRights(l, lambdas[l].queue) = {"send"}
          ELSE \A q \in queues : QueueRights(l, q) = {}
    /\ \A t \in triggers :
          /\ t.queue \in queues
          /\ QueueRights(t.lambda, t.queue) = {"send", "consume"}
    /\ (lastCall.n > 0 /\ ~lastCall.create_queue) =>
          /\ lastCall.queue = NoQueue
          /\ lastCall.errorAt # "queue"
          /\ lastCall.lam # "" => "queue" \notin DOMAIN lambdas[lastCall.lam].env

\* A route with a queue and its consumer, beside a route without a queue.
C16_Witness ==
    /\ status \in {"new_user_done", "finished"}
    /\ \E t \in triggers : \E l \in DOMAIN lambdas : lambdas[l].queue = t.queue
    /\ \E l \in DOMAIN lambdas : lambdas[l].queue = NoQueue
    /\ ~lastCall.create_queue

\* Every function of the stack: the workers of the routes and the consumers.
Functions == DOMAIN lambdas \cup DOMAIN consumers

\* C17: once the stack is built, a function that was granted the consumption
\* of a queue is registered as an event source mapping of that queue with a
\* batch size, and no queue has two such mappings.
C17_ConsumersAreTriggers ==
    status = "finished" =>
        /\ \A l \in Functions : \A q \in queues :
              "consume" \in StoreRights(l, q) =>
                 \E t \in triggers : t.lambda = l /\ t.queue = q /\ t.batch_size >= 1
        /\ \A t1, t2 \in triggers : t1.queue = t2.queue => t1 = t2

\* C18: the environment of the worker of a route holds, under the name of
\* every table and every bucket the worker was built with, the locator of
\* that store; it holds the region and the prefix; and it holds the queue
\* URL exactly when the route has a queue.
C18_WorkerEnv ==
    \A l \in DOMAIN lambdas :
        LET env == lambdas[l].env
        IN  /\ \A e \in StoresOf(l) : e[1] \in DOMAIN env
            /\ \A i \in DOMAIN lambdas[l].tables :
                  env[lambdas[l].tables[i][1]] = "arn:" \o lambdas[l].tables[i][1]
            /\ "region_name" \in DOMAIN env /\ env["region_name"] = "us-west-1"
            /\ "prefix" \in DOMAIN env /\ env["prefix"] = "neurodeploy"
            /\ "queue" \in DOMAIN env <=> lambdas[l].queue # NoQueue
            /\ "queue" \in DOMAIN env => env["queue"] = "url:" \o lambdas[l].queue

\* The processing of a record by invocation p ends in this step, otherwise
\* than by the invocation being killed.
RecordEnded(p) ==
    /\ inv[p].pc \in CallPcs
    /\ inv'[p].batch = inv[p].batch
    /\ Len(inv'[p].outcomes) = Len(inv[p].outcomes) + 1

\* What handler() logged in this step.
Logged == SubSeq(log', Len(log) + 1, Len(log'))

C21_LastWriterWins ==
    \A h \in Finished :
        h.outcome = "ok" =>
            LET new == h.post.table[KeyOf(h)]
                own == {"updated_at", "bucket", "key",
                        IF h.meta.mop = "model" THEN "is_uploaded"
                        ELSE "is_preprocessing_uploaded"}
            IN  /\ DOMAIN new = DOMAIN h.read \cup own
                /\ \A f \in DOMAIN new \ own : new[f] = h.read[f]
                /\ ~Has(h.post.s3, Source(h))
                /\ Has(h.post.s3, Dest(h))

\* The lost update: a model event and a preprocessing event of one model
\* were processed successfully by two invocations, both objects are at their
\* destinations and gone from the staging bucket, and the item has one of
\* the two flags only.
C21_Witness ==
    /\ Len(hist) = 2
    /\ hist[1].outcome = "ok" /\ hist[2].outcome = "ok"
    /\ KeyOf(hist[1]) = KeyOf(hist[2])
    /\ hist[1].meta.mop # hist[2].meta.mop
    /\ \A p \in Procs : inv[p].pc = "returned"
    /\ \A i \in {1, 2} : Has(s3objects, Dest(hist[i])) /\ ~Has(s3objects, Source(hist[i]))
    /\ Cardinality(DOMAIN table[KeyOf(hist[1])]
                     \cap {"is_uploaded", "is_preprocessing_uploaded"}) = 1

\* ==================================================================
\*  Order of the steps and redelivery (SpecIngest)
\* ==================================================================

\* The calls of main() in the order it makes them.
CallOrder == <<"get_object", "copy", "delete", "get_model", "put_item">>
PlaceOf(c) == CHOOSE j \in DOMAIN CallOrder : CallOrder[j] = c

\* C22: for one record main() reads the metadata, copies, deletes the source,
\* then reads and writes the index, each call once and only after the calls
\* before it returned; so from the index read on, and whenever the processing
\* of an event has changed the index, the object is at the destination and
\* gone from the source.
C22_StepOrder ==
    /\ \A p \in Procs :
          inv[p].pc \in CallPcs =>
             LET me == inv[p]
                 ev == me.batch[me.i]
             IN  /\ \A c \in CallPcs :
                       me.calls[c] = IF PlaceOf(c) < PlaceOf(me.pc) THEN 1 ELSE 0
                 /\ me.pc \in {"get_model", "put_item"} =>
                       /\ ~Has(s3objects, <<ev.bucket, ev.key>>)
                       /\ Has(s3objects, <<me.to.bucket, me.to.key>>)
    /\ \A h \in Finished :
          h.post.table # h.pre.table =>
             /\ h.outcome = "ok"
             /\ \A c \in CallPcs : h.calls[c] = 1
             /\ ~Has(h.post.s3, Source(h))
             /\ Has(h.post.s3, Dest(h))

\* An event set the flag of its kind in an item that did not have it.
C22_Witness ==
    \E h \in Finished :
        /\ h.outcome = "ok"
        /\ h.post.table # h.pre.table
        /\ (IF h.meta.mop = "model" THEN "is_uploaded" ELSE "is_preprocessing_uploaded")
              \notin DOMAIN h.pre.table[KeyOf(h)]
        /\ Has(h.pre.s3, Source(h))

\* C24: an event whose source object is gone fails at the metadata read and
\* changes neither the index nor the buckets; so when the processing of an
\* event ended, by failure or kill, after its source delete and before its
\* index write, the redelivery of the event fails at the metadata read, the
\* object stays at the destination and the index stays as it was, the flag
\* of the event unset if it was unset.
C24_RedeliveryNoRepair ==
    /\ \A h \in Finished :
          ~Has(h.pre.s3, Source(h)) =>
             /\ h.at = "get_object"
             /\ h.outcome # "ok"
             /\ h.post = h.pre
    /\ (/\ Len(hist) = 2
        /\ hist[1].event = hist[2].event
        /\ hist[1].outcome # "ok"
        /\ hist[1].at \in {"get_model", "put_item"}) =>
          /\ ~Has(hist[1].post.s3, Source(hist[1]))
          /\ hist[2].at = "get_object"
          /\ hist[2].outcome \in {"NotFound", "IOError", "Crash"}
          /\ hist[2].post = hist[1].post
          /\ Has(hist[2].post.s3, Dest(hist[1]))
          /\ hist[2].post.table = hist[1].pre.table

\* The index read failed after the move; the event was delivered again and
\* was not found: the object is at the destination, the item lacks the flag.
C24_Witness ==
    /\ Len(hist) = 2
    /\ hist[1].event = hist[2].event
    /\ hist[1].outcome = "IOError"
    /\ hist[1].at \in {"get_model", "put_item"}
    /\ hist[2].outcome = "NotFound"
    /\ Has(s3objects, Dest(hist[1]))
    /\ Has(table, KeyOf(hist[1]))
    /\ (IF hist[1].meta.mop = "model" THEN "is_uploaded" ELSE "is_preprocessing_uploaded")
          \notin DOMAIN table[KeyOf(hist[1])]

\* ==================================================================
\*  Properties of a burst of uploads (SpecBurst)
\* ==================================================================

\* The keys of the objects of the buckets that invoke the trigger.
TriggerObjects(s3) == {o \in DOMAIN s3 : o[1] \in TriggerBuckets}

\* The calls an invocation still has to make for its record, and those the
\* notifications waiting will need.
Remaining(p) ==
    IF inv[p].pc \in CallPcs THEN Len(CallOrder) + 1 - PlaceOf(inv[p].pc) ELSE 0
Measure == (Len(CallOrder) + 1) * Cardinality(pending) + Remaining("p1") + Remaining("p2")

\* The same, after the step.
RemainingNext(p) ==
    IF inv'[p].pc \in CallPcs THEN Len(CallOrder) + 1 - PlaceOf(inv'[p].pc) ELSE 0
MeasureNext ==
    (Len(CallOrder) + 1) * Cardinality(pending') + RemainingNext("p1") + RemainingNext("p2")

\* C26: no step of the processing creates an object in the staging bucket
\* or adds a notification to those waiting; what it writes, it writes to the
\* models bucket, which is not the staging bucket; and every step brings the
\* processing of the burst nearer to its end, so the processing of a finite
\* burst terminates.
C26_NoSelfTrigger ==
    [][
       /\ TriggerObjects(s3objects') \subseteq TriggerObjects(s3objects)
       /\ pending' \subseteq pending
       /\ \A o \in DOMAIN s3objects' \ DOMAIN s3objects :
             o[1] = ModelsBucket(RegionName) /\ o[1] \notin TriggerBuckets
       /\ MeasureNext < Measure
      ]_vars

\* The whole burst was processed: two objects were moved to the models
\* bucket, nothing is waiting and the staging bucket is empty.
C26_Witness ==
    /\ nDeliv = 2
    /\ pending = {}
    /\ inv["p1"].pc = "returned"
    /\ TriggerObjects(s3objects) = {}
    /\ Cardinality(DOMAIN s3objects) >= 1
    /\ Len(hist) = 2 /\ hist[1].outcome = "ok" /\ hist[2].outcome = "ok"

====
